---- MODULE Spec2Model ----
(***************************************************************************)
(* util/taskcluster.py: resolution of a TaskCluster artifact URL, optional *)
(* download into a target directory and tar extraction.                    *)
(*                                                                         *)
(* Python str values are TLA+ strings (sequences of characters, taken      *)
(* apart with Len and SubSeq).  An optional value (an argparse attribute   *)
(* that may be None, an environment variable that may be unset) is a       *)
(* sequence of at most one string: None is << >>, the string s is <<s>>.   *)
(***************************************************************************)
EXTENDS Integers, Sequences, FiniteSets, TLC

None == << >>
Some(s) == <<s>>
Val(o) == o[1]
\* Python truthiness of an optional string: None and "" are falsy.
Truthy(o) == o # None /\ Val(o) # ""

Max(S) == CHOOSE m \in S : \A n \in S : n <= m
Min(S) == CHOOSE m \in S : \A n \in S : m <= n

\* Python's `sub in s` on strings
Contains(s, sub) ==
    \E i \in 1..(Len(s) - Len(sub) + 1) : SubSeq(s, i, i + Len(sub) - 1) = sub

\* the places of character c in s
Places(s, c) == {i \in 1..Len(s) : SubSeq(s, i, i) = c}

---------------------------------------------------------------------------
(* The scheme table and the % operator *)

DEFAULT_SCHEMES ==
    [deepspeech |-> "https://index.taskcluster.net/v1/task/project.deepspeech.deepspeech.native_client.%(branch_name)s.%(arch_string)s/artifacts/public/%(artifact_name)s",
     tensorflow |-> "https://index.taskcluster.net/v1/task/project.deepspeech.tensorflow.pip.%(branch_name)s.%(arch_string)s/artifacts/public/%(artifact_name)s"]

\* os.getenv('TASKCLUSTER_SCHEME', DEFAULT_SCHEMES['deepspeech'])
getenv_scheme(environ) ==
    IF environ # None THEN Val(environ) ELSE DEFAULT_SCHEMES["deepspeech"]

Ok(s) == [err |-> "", s |-> s]
Raise(e) == [err |-> e, s |-> ""]

\* Python's `template % mapping`, from position i on.  The directives are
\* %(key)s, which needs key in the mapping, and %%.  A key of the mapping that
\* the template does not name is ignored.  Any other directive is reported
\* as a ValueError.
RECURSIVE PercentFrom(_, _, _)
PercentFrom(t, i, m) ==
    IF i > Len(t) THEN Ok("")
    ELSE IF SubSeq(t, i, i) # "%"
    THEN LET pct == {j \in (i + 1)..Len(t) : SubSeq(t, j, j) = "%"}
             stop == IF pct = {} THEN Len(t) + 1 ELSE Min(pct)
             rest == PercentFrom(t, stop, m)
         IN  IF rest.err # "" THEN rest ELSE Ok(SubSeq(t, i, stop - 1) \o rest.s)
    ELSE IF i = Len(t) THEN Raise("ValueError")
    ELSE IF SubSeq(t, i + 1, i + 1) = "%"
    THEN LET rest == PercentFrom(t, i + 2, m)
         IN  IF rest.err # "" THEN rest ELSE Ok("%" \o rest.s)
    ELSE IF SubSeq(t, i + 1, i + 1) = "("
    THEN LET closing == {j \in (i + 2)..Len(t) : SubSeq(t, j, j) = ")"}
         IN  IF closing = {} \/ Min(closing) = Len(t) THEN Raise("ValueError")
             ELSE LET close == Min(closing)
                      key == SubSeq(t, i + 2, close - 1)
                  IN  IF key \notin DOMAIN m THEN Raise("KeyError")
                      ELSE IF SubSeq(t, close + 1, close + 1) # "s"
                      THEN Raise("ValueError")
                      ELSE LET rest == PercentFrom(t, close + 2, m)
                           IN  IF rest.err # "" THEN rest
                               ELSE Ok(m[key] \o rest.s)
    ELSE Raise("ValueError")

\* a % that refuses a template which leaves a key of the mapping unused
Percent_all_keys(t, m) ==
    IF \E k \in DOMAIN m : ~Contains(t, "%(" \o k \o ")s") THEN Raise("KeyError")
    ELSE PercentFrom(t, 1, m)

Percent(t, m) == PercentFrom(t, 1, m)

\* get_tc_url, the global TASKCLUSTER_SCHEME passed as `scheme`; the three
\* arguments are optional strings.  The result is the URL or the exception.
get_tc_url(scheme, arch_string, artifact_name, branch_name) ==
    IF arch_string = None THEN Raise("AssertionError")
    ELSE IF artifact_name = None THEN Raise("AssertionError")
    ELSE IF Val(artifact_name) = "" THEN Raise("AssertionError")
    ELSE IF branch_name = None THEN Raise("AssertionError")
    ELSE IF Val(branch_name) = "" THEN Raise("AssertionError")
    ELSE Percent(scheme, [arch_string |-> Val(arch_string),
                          artifact_name |-> Val(artifact_name),
                          branch_name |-> Val(branch_name)])

---------------------------------------------------------------------------
(* os.path, POSIX flavour *)

\* the working directory of the process
getcwd == "/w"

\* os.path.basename: what follows the last slash
basename(p) ==
    LET sl == Places(p, "/")
    IN  IF sl = {} THEN p ELSE SubSeq(p, Max(sl) + 1, Len(p))

RECURSIVE rstrip_slash(_)
rstrip_slash(p) ==
    IF p # "" /\ SubSeq(p, Len(p), Len(p)) = "/"
    THEN rstrip_slash(SubSeq(p, 1, Len(p) - 1)) ELSE p

\* os.path.dirname: what precedes the last slash, without trailing slashes
\* unless it is all slashes
dirname(p) ==
    LET sl == Places(p, "/")
        head == IF sl = {} THEN "" ELSE SubSeq(p, 1, Max(sl))
    IN  IF head # "" /\ rstrip_slash(head) # "" THEN rstrip_slash(head) ELSE head

\* os.path.join of two parts
join(a, b) ==
    IF b # "" /\ SubSeq(b, 1, 1) = "/" THEN b
    ELSE IF a = "" \/ SubSeq(a, Len(a), Len(a)) = "/" THEN a \o b
    ELSE a \o "/" \o b

\* the components of p between slashes
RECURSIVE split_slash(_)
split_slash(p) ==
    LET sl == Places(p, "/")
    IN  IF sl = {} THEN <<p>>
        ELSE <<SubSeq(p, 1, Min(sl) - 1)>> \o split_slash(SubSeq(p, Min(sl) + 1, Len(p)))

\* normpath's walk over the components: "" and "." are dropped, ".." pops
\* (at the root of an absolute path it is dropped)
RECURSIVE collapse(_, _, _)
collapse(comps, kept, isabs) ==
    IF comps = << >> THEN kept
    ELSE LET c == Head(comps)
             k == IF c = "" \/ c = "." THEN kept
                  ELSE IF c # ".." THEN Append(kept, c)
                  ELSE IF kept # << >> /\ kept[Len(kept)] # ".."
                  THEN SubSeq(kept, 1, Len(kept) - 1)
                  ELSE IF isabs THEN kept
                  ELSE Append(kept, c)
         IN  collapse(Tail(comps), k, isabs)

RECURSIVE join_slash(_)
join_slash(comps) ==
    IF comps = << >> THEN ""
    ELSE IF Len(comps) = 1 THEN comps[1]
    ELSE comps[1] \o "/" \o join_slash(Tail(comps))

\* os.path.normpath
normpath(p) ==
    LET isabs == p # "" /\ SubSeq(p, 1, 1) = "/"
        body == join_slash(collapse(split_slash(p), << >>, isabs))
    IN  IF isabs THEN "/" \o body
        ELSE IF body = "" THEN "." ELSE body

\* os.path.abspath
abspath(p) == normpath(join(getcwd, p))

\* a path and its ancestors, as os.makedirs creates them
ancestors(p) == {SubSeq(p, 1, i) : i \in {j \in 2..Len(p) : j = Len(p) \/ SubSeq(p, j + 1, j + 1) = "/"}}

---------------------------------------------------------------------------
(* The inputs of a run *)

\* command lines: each flag absent (None) or given with a value
Targets == {None, Some("/t"), Some("d")}
Archs == {None, Some(""), Some("gpu")}
Artifacts == {"native_client.tar.xz", "sub/native_client.tar.xz", "model.pb", ""}
Sources == {None, Some("tensorflow"), Some("bogus")}
Branches == {None, Some(""), Some("master")}

\* values of the environment variable TASKCLUSTER_SCHEME for a run of main
MirrorScheme == "http://m/%(branch_name)s.%(arch_string)s/%(artifact_name)s"
LatestScheme == "http://m/%(artifact_name)s/%(branch_name)s.%(arch_string)s/latest"
Environs == {None, Some(MirrorScheme), Some(LatestScheme)}

\* the executing machine and interpreter: platform.machine(), sys.platform,
\* platform.system(), sys.maxsize, sys.maxunicode, sys.version_info[0:2]
\* sys.maxsize is 2^maxsize_log2 - 1 (31 with 32-bit pointers, 63 with 64-bit)
Machine(m, p, s, mx, mu, v) ==
    [machine |-> m, sys_platform |-> p, system |-> s, maxsize_log2 |-> mx,
     maxunicode |-> mu, version_info |-> v]
Platforms ==
    { Machine("x86_64", "linux", "Linux", 63, 1114111, <<3, 6>>),
      Machine("i686", "linux", "Linux", 31, 1114111, <<3, 6>>),
      Machine("armv7l", "linux", "Linux", 31, 1114111, <<3, 5>>),
      Machine("arm64", "freebsd12", "FreeBSD", 63, 1114111, <<3, 6>>),
      Machine("aarch64", "linux", "Linux", 63, 1114111, <<3, 6>>),
      Machine("x86_64", "darwin", "Darwin", 63, 1114111, <<3, 6>>),
      Machine("i386", "darwin", "Darwin", 31, 65535, <<2, 7>>),
      Machine("arm64", "darwin", "Darwin", 63, 1114111, <<3, 10>>),
      Machine("armv7", "darwin", "Darwin", 31, 1114111, <<3, 6>>) }

\* contents of the VERSION file beside the package
Versions == {"0.6.0\n", "0.6.0-alpha.4\n"}

\* the file system before the run, for a target directory t: nothing there,
\* the directory there, the directory and a file of the default artifact's
\* name there, or a regular file where the directory should be
FsKinds == {"fresh", "dir", "dir+file", "notdir"}
BaseDirs == {"/", getcwd}
FsDirs(kind, t) ==
    IF kind \in {"dir", "dir+file"} THEN BaseDirs \cup ancestors(abspath(t))
    ELSE IF kind = "notdir" THEN BaseDirs \cup ancestors(dirname(abspath(t)))
    ELSE BaseDirs
FsFiles(kind, t) ==
    IF kind = "dir+file" THEN {join(abspath(t), "native_client.tar.xz")}
    ELSE IF kind = "notdir" THEN {abspath(t)}
    ELSE {}

\* arguments of a direct call of get_tc_url, and the scheme in effect then
UrlArgs == {None, Some(""), Some("cpu")}
UrlArtifacts == {None, Some(""), Some("native_client.tar.xz")}
UrlBranches == {None, Some(""), Some("master")}
UrlEnvirons ==
    {None,
     Some("http://m/%(branch_name)s/%(artifact_name)s"),
     Some("http://m/%(branch_name)s.%(arch_string)s"),
     Some("http://m/%(arch_string)s/%(artifact_name)s"),
     Some("http://m/fixed"),
     Some("http://m/%(task_id)s/%(artifact_name)s"),
     Some("http://m/100%%/%(arch_string)s/%(artifact_name)s.%(branch_name)s")}

\* arguments of direct calls of maybe_download_tc
DlTargets == {None, Some("/t"), Some("d"), Some("/t/x/")}
DlUrls == {"http://m/native_client.tar.xz", "http://m/v1/model.pb", "http://m/v1/"}
\* how many times in sequence the caller calls maybe_download_tc
NumCalls == 2

---------------------------------------------------------------------------
(* Strings *)

Whitespace == {" ", "\t", "\n", "\r"}

\* str.strip()
RECURSIVE strip(_)
strip(s) ==
    IF s = "" THEN s
    ELSE IF SubSeq(s, 1, 1) \in Whitespace THEN strip(SubSeq(s, 2, Len(s)))
    ELSE IF SubSeq(s, Len(s), Len(s)) \in Whitespace THEN strip(SubSeq(s, 1, Len(s) - 1))
    ELSE s

Upper == <<"A","B","C","D","E","F","G","H","I","J","K","L","M","N","O","P","Q","R","S","T","U","V","W","X","Y","Z">>
Lower == <<"a","b","c","d","e","f","g","h","i","j","k","l","m","n","o","p","q","r","s","t","u","v","w","x","y","z">>

\* str.lower()
RECURSIVE lower(_)
lower(s) ==
    IF s = "" THEN s
    ELSE LET c == SubSeq(s, 1, 1)
             up == {i \in 1..26 : Upper[i] = c}
         IN  (IF up = {} THEN c ELSE Lower[CHOOSE i \in up : TRUE]) \o lower(SubSeq(s, 2, Len(s)))

Digit == <<"0","1","2","3","4","5","6","7","8","9">>

\* str() of a natural number
RECURSIVE str_int(_)
str_int(n) == IF n < 10 THEN Digit[n + 1] ELSE str_int(n \div 10) \o Digit[(n % 10) + 1]

\* s with the first occurrence of `old` replaced by `new`
replace_first(s, old, new) ==
    LET at == {i \in 1..(Len(s) - Len(old) + 1) : SubSeq(s, i, i + Len(old) - 1) = old}
    IN  IF at = {} THEN s
        ELSE SubSeq(s, 1, Min(at) - 1) \o new \o SubSeq(s, Min(at) + Len(old), Len(s))

\* str(parse_version(v)): the version as pkg_resources writes it back, for
\* versions made of a release and an optional -alpha.N, -beta.N or -rc.N
parse_version(v) ==
    replace_first(replace_first(replace_first(v, "-alpha.", "a"), "-beta.", "b"), "-rc.", "rc")

---------------------------------------------------------------------------
(* main's derivations *)

\* lines 93-96
is_arm(platform) == Contains(platform.machine, "arm")
is_mac(platform) == Contains(platform.sys_platform, "darwin")
is_64bit(platform) == platform.maxsize_log2 > 31
is_ucs2(platform) == platform.maxunicode < 1114111

\* the defaulting with the macOS test before the ARM test
arch_default_mac_first(arch, platform) ==
    IF ~Truthy(arch)
    THEN IF is_mac(platform) THEN Some("osx")
         ELSE IF is_arm(platform)
         THEN (IF is_64bit(platform) THEN Some("arm64") ELSE Some("arm"))
         ELSE Some("cpu")
    ELSE arch

\* lines 98-104: args.arch after the defaulting
arch_default(arch, platform) ==
    IF ~Truthy(arch)
    THEN IF is_arm(platform)
         THEN (IF is_64bit(platform) THEN Some("arm64") ELSE Some("arm"))
         ELSE IF is_mac(platform) THEN Some("osx")
         ELSE Some("cpu")
    ELSE arch

\* lines 106-109
branch_is_set(branch) == Truthy(branch)
branch_default(branch) == IF ~branch_is_set(branch) THEN Some("master") ELSE branch

\* lines 112-119
decoder_plat(platform) ==
    LET plat == lower(platform.system)
        plat1 == IF plat = "linux" /\ platform.machine = "x86_64" THEN "manylinux1" ELSE plat
    IN  IF plat1 = "darwin" THEN "macosx_10_10" ELSE plat1

\* lines 121-136: the wheel's file name
decoder_artifact(platform, version_file) ==
    LET version_string == strip(version_file)
        ds_version == parse_version(version_string)
        m_or_mu == IF is_ucs2(platform) THEN "mu" ELSE "m"
        pyver == str_int(platform.version_info[1]) \o str_int(platform.version_info[2])
    IN  "ds_ctcdecoder-" \o ds_version \o "-cp" \o pyver \o "-cp" \o pyver \o m_or_mu
            \o "-" \o decoder_plat(platform) \o "_" \o platform.machine \o ".whl"

\* the decoder's branch when "unset" is told by the value being "master"
decoder_branch_by_value(branch, has_branch_set, version_file) ==
    IF branch = Some("master") THEN Some("v" \o strip(version_file)) ELSE branch

\* lines 124-125: the branch of the decoder's URL
decoder_branch(branch, has_branch_set, version_file) ==
    IF ~has_branch_set THEN Some("v" \o strip(version_file)) ELSE branch

\* a main that prefers the download when --target is given with --decoder
after_defaults_target_first(a) ==
    IF a.decoder /\ ~Truthy(a.target) THEN "decoder" ELSE "source"

\* line 111: where main goes after the defaulting
after_defaults(a) == IF a.decoder THEN "decoder" ELSE "source"

\* line 138
ctc_arch(arch) == Some(Val(arch) \o "-ctc")

\* line 153
is_tar(artifact) == Contains(artifact, ".tar.")

\* line 154: the archive handed to tar
tar_file(target, artifact) == join(target, artifact)

\* an except clause that swallows every OSError
makedirs_reraise_never(errno) == FALSE

\* line 49: whether the OSError of os.makedirs is raised again
makedirs_reraise(errno) == errno # "EEXIST"

\* lines 53-54
target_file_of(target_dir, tc_url) == join(target_dir, basename(tc_url))

---------------------------------------------------------------------------
(* The state *)

VARIABLES
    entry,              \* what the caller runs: "main" (the script), or a direct
                        \* call of "get_tc_url" or of "maybe_download_tc"
    argv,               \* the command line: the flags as given
    environ,            \* the environment variable TASKCLUSTER_SCHEME
    platform,           \* the executing machine and interpreter
    version_file,       \* the content of ../VERSION
    fs0,                \* the file system before the run
    TASKCLUSTER_SCHEME, \* the module's global
    args,               \* main's argparse namespace
    has_branch_set,     \* main's local
    pc,                 \* the statement the run is at
    dirs,               \* the directories of the file system
    files,              \* its regular files
    log,                \* the run's mkdir, isfile, HTTP and tar calls, in order
    stdout,             \* the lines print() wrote
    tc_call,            \* the call of get_tc_url: arguments, scheme read, result
    dl,                 \* maybe_download_tc's arguments
    returned,           \* the values maybe_download_tc returned, in order
    status              \* the process exit status, None while running

vars == <<entry, argv, environ, platform, version_file, fs0, TASKCLUSTER_SCHEME, args,
          has_branch_set, pc, dirs, files, log, stdout, tc_call, dl, returned, status>>

inputs == <<entry, argv, environ, platform, version_file, fs0>>

NoCall == [called |-> FALSE, scheme |-> "", arch_string |-> None,
           artifact_name |-> None, branch_name |-> None, result |-> Ok("")]
NoDl == [target_dir |-> None, tc_url |-> ""]
DefaultArgv == [target |-> None, arch |-> None, artifact |-> "native_client.tar.xz",
                source |-> None, branch |-> None, decoder |-> FALSE]
Line(kind, text) == [kind |-> kind, text |-> text]
Event(op, arg, dest, ok) == [op |-> op, arg |-> arg, dest |-> dest, ok |-> ok]

\* the command lines of the runs: target mode with every flag varied, and
\* decoder mode, where --target and --artifact play no part in the URL
CommandLines ==
    [target : Targets, arch : Archs, artifact : Artifacts,
     source : Sources, branch : Branches, decoder : {FALSE}]
    \cup
    [target : {None, Some("/t")}, arch : Archs, artifact : {"native_client.tar.xz", "model.pb"},
     source : Sources, branch : Branches, decoder : {TRUE}]

InitMain ==
    /\ entry = "main"
    /\ argv \in CommandLines
    /\ environ \in Environs
    /\ platform \in Platforms
    /\ version_file \in (IF argv.decoder THEN Versions ELSE {"0.6.0\n"})
    /\ \E kind \in (IF argv.target = None \/ argv.decoder THEN {"fresh"} ELSE FsKinds) :
          /\ dirs = (IF argv.target = None THEN BaseDirs ELSE FsDirs(kind, Val(argv.target)))
          /\ files = (IF argv.target = None THEN {} ELSE FsFiles(kind, Val(argv.target)))
    /\ tc_call = NoCall
    /\ dl = NoDl
    /\ pc = "parse"

InitGetTcUrl ==
    /\ entry = "get_tc_url"
    /\ argv = DefaultArgv
    /\ environ \in UrlEnvirons
    /\ platform = Machine("x86_64", "linux", "Linux", 63, 1114111, <<3, 6>>)
    /\ version_file = "0.6.0\n"
    /\ dirs = BaseDirs
    /\ files = {}
    /\ \E a \in UrlArgs, n \in UrlArtifacts, b \in UrlBranches :
          tc_call = [NoCall EXCEPT !.arch_string = a, !.artifact_name = n, !.branch_name = b]
    /\ dl = NoDl
    /\ pc = "get_tc_url"

InitMaybeDownloadTc ==
    /\ entry = "maybe_download_tc"
    /\ argv = DefaultArgv
    /\ environ = None
    /\ platform = Machine("x86_64", "linux", "Linux", 63, 1114111, <<3, 6>>)
    /\ version_file = "0.6.0\n"
    /\ \E t \in DlTargets, u \in DlUrls :
          /\ dl = [target_dir |-> t, tc_url |-> u]
          /\ \E kind \in (IF t = None THEN {"fresh"} ELSE FsKinds) :
                /\ dirs = (IF t = None THEN BaseDirs ELSE FsDirs(kind, Val(t)))
                /\ files = (IF t = None THEN {} ELSE FsFiles(kind, Val(t)))
    /\ tc_call = NoCall
    /\ pc = "maybe_download_tc"

Init ==
    /\ (InitMain \/ InitGetTcUrl \/ InitMaybeDownloadTc)
    /\ fs0 = [dirs |-> dirs, files |-> files]
    /\ TASKCLUSTER_SCHEME = getenv_scheme(environ)
    /\ args = argv
    /\ has_branch_set = TRUE
    /\ log = << >>
    /\ stdout = << >>
    /\ returned = << >>
    /\ status = None

\* exit(n), and the end of the script
Exit(n) == pc' = "exited" /\ status' = <<n>>
\* an exception nothing catches: the traceback, then exit status 1
Uncaught(e) == pc' = "exited" /\ status' = <<1>> /\ stdout' = Append(stdout, Line("traceback", e))

---------------------------------------------------------------------------
(* main *)

\* lines 87-91
Main_CheckMode ==
    /\ pc = "parse"
    /\ IF ~Truthy(args.target) /\ ~args.decoder
       THEN /\ stdout' = Append(stdout, Line("usage", "Pass either --target or --decoder."))
            /\ Exit(1)
       ELSE /\ pc' = "defaults"
            /\ UNCHANGED <<stdout, status>>
    /\ UNCHANGED <<inputs, TASKCLUSTER_SCHEME, args, has_branch_set, dirs, files, log,
                   tc_call, dl, returned>>

\* lines 93-109
Main_Defaults ==
    /\ pc = "defaults"
    /\ args' = [args EXCEPT !.arch = arch_default(args.arch, platform),
                            !.branch = branch_default(args.branch)]
    /\ has_branch_set' = branch_is_set(args.branch)
    /\ pc' = after_defaults(args)
    /\ UNCHANGED <<inputs, TASKCLUSTER_SCHEME, dirs, files, log, stdout, tc_call, dl,
                   returned, status>>

\* the call get_tc_url(a, n, b) with the global as it is now
Called(a, n, b) ==
    [called |-> TRUE, scheme |-> TASKCLUSTER_SCHEME, arch_string |-> a,
     artifact_name |-> n, branch_name |-> b,
     result |-> get_tc_url(TASKCLUSTER_SCHEME, a, n, b)]

\* lines 111-141
Main_Decoder ==
    /\ pc = "decoder"
    /\ LET branch == decoder_branch(args.branch, has_branch_set, version_file)
           call == Called(ctc_arch(args.arch),
                          Some(decoder_artifact(platform, version_file)), branch)
       IN  /\ args' = [args EXCEPT !.branch = branch]
           /\ tc_call' = call
           /\ IF call.result.err # ""
              THEN Uncaught(call.result.err)
              ELSE /\ stdout' = Append(stdout, Line("url", call.result.s))
                   /\ Exit(0)
    /\ UNCHANGED <<inputs, TASKCLUSTER_SCHEME, has_branch_set, dirs, files, log, dl, returned>>

\* lines 143-149
Main_Source ==
    /\ pc = "source"
    /\ IF args.source # None
       THEN IF Val(args.source) \in DOMAIN DEFAULT_SCHEMES
            THEN /\ TASKCLUSTER_SCHEME' = DEFAULT_SCHEMES[Val(args.source)]
                 /\ pc' = "resolve"
                 /\ UNCHANGED <<stdout, status>>
            ELSE /\ stdout' = Append(stdout, Line("no such scheme", Val(args.source)))
                 /\ Exit(1)
                 /\ UNCHANGED TASKCLUSTER_SCHEME
       ELSE /\ pc' = "resolve"
            /\ UNCHANGED <<TASKCLUSTER_SCHEME, stdout, status>>
    /\ UNCHANGED <<inputs, args, has_branch_set, dirs, files, log, tc_call, dl, returned>>

\* line 151: the argument get_tc_url(...) and the entry into maybe_download_tc
Main_Resolve ==
    /\ pc = "resolve"
    /\ LET call == Called(args.arch, Some(args.artifact), args.branch)
       IN  /\ tc_call' = call
           /\ IF call.result.err # ""
              THEN /\ Uncaught(call.result.err)
                   /\ UNCHANGED dl
              ELSE /\ dl' = [target_dir |-> args.target, tc_url |-> call.result.s]
                   /\ pc' = "maybe_download_tc"
                   /\ UNCHANGED <<stdout, status>>
    /\ UNCHANGED <<inputs, TASKCLUSTER_SCHEME, args, has_branch_set, dirs, files, log, returned>>

---------------------------------------------------------------------------
(* maybe_download_tc *)

\* what os.makedirs(d) can end with: "" is success; EEXIST when d is there, as
\* a directory or as anything else; otherwise it may fail for want of permission
makedirs_errnos(d) == IF d \in dirs \/ d \in files THEN {"EEXIST"} ELSE {"", "EACCES"}

\* lines 43-51
maybe_download_tc_makedirs ==
    /\ pc = "maybe_download_tc"
    /\ IF dl.target_dir = None
       THEN /\ Uncaught("AssertionError")
            /\ UNCHANGED <<dirs, log>>
       ELSE LET target_dir == abspath(Val(dl.target_dir))
            IN  \E errno \in makedirs_errnos(target_dir) :
                   /\ dirs' = IF errno = "" THEN dirs \cup ancestors(target_dir) ELSE dirs
                   /\ log' = Append(log, Event("makedirs", target_dir, "",
                                                errno \in {"", "EEXIST"}))
                   /\ IF errno # "" /\ makedirs_reraise(errno)
                      THEN Uncaught("OSError")
                      ELSE IF dirname(target_dir) \notin dirs'
                      THEN Uncaught("AssertionError")
                      ELSE pc' = "fetch" /\ UNCHANGED <<stdout, status>>
    /\ UNCHANGED <<inputs, TASKCLUSTER_SCHEME, args, has_branch_set, files, tc_call, dl, returned>>

\* a downloader that never finds the file
isfile_never(f) == FALSE

\* line 55: os.path.isfile
isfile(f) == f \in files

\* what urlretrieve(url, f) can end with: "" is success; the request may fail
\* (URLError), the body may come short after f was opened
\* (ContentTooShortError), and f may be impossible to open once the response
\* has arrived (IOError)
urlretrieve_outcomes(f) ==
    IF dirname(f) \in dirs /\ f \notin dirs /\ basename(f) # ""
    THEN {"", "URLError", "ContentTooShortError"}
    ELSE {"URLError", "IOError"}

\* where the run goes when maybe_download_tc returns
AfterReturn(n) ==
    IF entry = "main" THEN pc' = "tar" /\ UNCHANGED status
    ELSE IF n < NumCalls THEN pc' = "maybe_download_tc" /\ UNCHANGED status
    ELSE Exit(0)

\* lines 53-61
maybe_download_tc_fetch ==
    /\ pc = "fetch"
    /\ LET target_dir == abspath(Val(dl.target_dir))
           target_file == target_file_of(target_dir, dl.tc_url)
       IN  IF ~isfile(target_file)
           THEN \E outcome \in urlretrieve_outcomes(target_file) :
                   /\ log' = Append(log, Event("urlretrieve", dl.tc_url, target_file, outcome = ""))
                   /\ files' = IF outcome \in {"", "ContentTooShortError"}
                               THEN files \cup {target_file} ELSE files
                   /\ IF outcome # ""
                      THEN /\ pc' = "exited"
                           /\ status' = <<1>>
                           /\ stdout' = stdout \o <<Line("downloading", dl.tc_url),
                                                    Line("traceback", outcome)>>
                           /\ UNCHANGED returned
                      ELSE /\ stdout' = Append(stdout, Line("downloading", dl.tc_url))
                           /\ returned' = Append(returned, target_file)
                           /\ AfterReturn(Len(returned) + 1)
           ELSE /\ log' = Append(log, Event("isfile", target_file, "", TRUE))
                /\ stdout' = Append(stdout, Line("exists", target_file))
                /\ returned' = Append(returned, target_file)
                /\ AfterReturn(Len(returned) + 1)
                /\ UNCHANGED files
    /\ UNCHANGED <<inputs, TASKCLUSTER_SCHEME, args, has_branch_set, dirs, tc_call, dl>>

---------------------------------------------------------------------------
(* main, after the download *)

\* tar's exit statuses: it fails when the archive or the directory is not there,
\* and may fail on an archive that is
tar_statuses(file, dir) ==
    IF abspath(file) \in files /\ abspath(dir) \in dirs THEN {0, 2} ELSE {2}

\* lines 153-154, and the end of the script
Main_Tar ==
    /\ pc = "tar"
    /\ IF is_tar(args.artifact)
       THEN LET file == tar_file(Val(args.target), args.artifact)
            IN  \E rc \in tar_statuses(file, Val(args.target)) :
                   /\ log' = Append(log, Event("tar", file, Val(args.target), rc = 0))
                   /\ IF rc # 0 THEN Uncaught("CalledProcessError")
                      ELSE Exit(0) /\ UNCHANGED stdout
       ELSE /\ Exit(0)
            /\ UNCHANGED <<log, stdout>>
    /\ UNCHANGED <<inputs, TASKCLUSTER_SCHEME, args, has_branch_set, dirs, files, tc_call,
                   dl, returned>>

---------------------------------------------------------------------------
(* a direct call of get_tc_url *)

Call_get_tc_url ==
    /\ pc = "get_tc_url"
    /\ LET call == Called(tc_call.arch_string, tc_call.artifact_name, tc_call.branch_name)
       IN  /\ tc_call' = call
           /\ IF call.result.err # "" THEN Uncaught(call.result.err)
              ELSE Exit(0) /\ UNCHANGED stdout
    /\ UNCHANGED <<inputs, TASKCLUSTER_SCHEME, args, has_branch_set, dirs, files, log, dl,
                   returned>>

---------------------------------------------------------------------------

Next ==
    \/ Main_CheckMode
    \/ Main_Defaults
    \/ Main_Decoder
    \/ Main_Source
    \/ Main_Resolve
    \/ maybe_download_tc_makedirs
    \/ maybe_download_tc_fetch
    \/ Main_Tar
    \/ Call_get_tc_url

Spec == Init /\ [][Next]_vars

---------------------------------------------------------------------------
(* Properties *)

Exited == pc = "exited"
Transfers == {i \in DOMAIN log : log[i].op = "urlretrieve"}
TarCalls == {i \in DOMAIN log : log[i].op = "tar"}
TargetMode == entry = "main" /\ ~argv.decoder
DecoderMode == entry = "main" /\ argv.decoder
UnknownSource == argv.source # None /\ Val(argv.source) \notin {"deepspeech", "tensorflow"}

\* C1: a run of main whose --source is not a key of the scheme table performs
\* no network access and exits with status 1, whatever the other flags.
C1_UnknownSourceExitsOne ==
    (entry = "main" /\ UnknownSource) =>
        /\ Transfers = {}
        /\ Exited => status = <<1>>

Blank(o) == o = None \/ o = Some("")

\* C2: get_tc_url fails whenever one of its three arguments is None or "".
C2_BlankArgumentFails ==
    (entry = "get_tc_url" /\ Exited
        /\ (Blank(tc_call.arch_string) \/ Blank(tc_call.artifact_name)
            \/ Blank(tc_call.branch_name)))
    => (tc_call.result.err # "" /\ status = <<1>>)

Destination == join(abspath(Val(dl.target_dir)), basename(dl.tc_url))

\* C3: two calls in sequence of maybe_download_tc with the same directory and
\* URL: both return the destination file, the directory joined with the last
\* segment of the URL; the first call transfers when that file is not there
\* yet, and that is the only transfer; the second call finds the file and
\* transfers nothing.
C3_SecondCallTransfersNothing ==
    (entry = "maybe_download_tc" /\ Len(returned) >= 2) =>
        /\ returned[1] = Destination
        /\ returned[2] = returned[1]
        /\ Destination \notin fs0.files =>
              (Cardinality(Transfers) = 1 /\ log[2].op = "urlretrieve")
        /\ \A i \in Transfers : i <= 2
        /\ log[4] = Event("isfile", Destination, "", TRUE)
C3_Witness ==
    /\ entry = "maybe_download_tc" /\ Len(returned) = 2
    /\ Cardinality(Transfers) = 1
    /\ dl.target_dir = Some("d")
    /\ returned = <<"/w/d/model.pb", "/w/d/model.pb">>

ExpectedArch ==
    IF argv.arch # None /\ Val(argv.arch) # "" THEN Val(argv.arch)
    ELSE IF Contains(platform.machine, "arm")
    THEN (IF platform.maxsize_log2 = 63 THEN "arm64" ELSE "arm")
    ELSE IF platform.sys_platform = "darwin" THEN "osx"
    ELSE "cpu"

VersionTrimmed ==
    CASE version_file = "0.6.0\n" -> "0.6.0"
      [] version_file = "0.6.0-alpha.4\n" -> "0.6.0-alpha.4"
ExpectedBranch ==
    IF argv.branch # None /\ Val(argv.branch) # "" THEN Val(argv.branch)
    ELSE IF argv.decoder THEN "v" \o VersionTrimmed
    ELSE "master"

C7_TarGetsTheDownloadedFile ==
    (TargetMode /\ Exited /\ returned # << >>) =>
        /\ TarCalls # {} <=> Contains(argv.artifact, ".tar.")
        /\ \A i \in TarCalls :
              /\ abspath(log[i].arg) = returned[1]
              /\ log[i].dest = Val(argv.target)

ExpectedScheme ==
    IF argv.source = Some("deepspeech")
    THEN "https://index.taskcluster.net/v1/task/project.deepspeech.deepspeech.native_client.%(branch_name)s.%(arch_string)s/artifacts/public/%(artifact_name)s"
    ELSE IF argv.source = Some("tensorflow")
    THEN "https://index.taskcluster.net/v1/task/project.deepspeech.tensorflow.pip.%(branch_name)s.%(arch_string)s/artifacts/public/%(artifact_name)s"
    ELSE IF environ # None THEN Val(environ)
    ELSE "https://index.taskcluster.net/v1/task/project.deepspeech.deepspeech.native_client.%(branch_name)s.%(arch_string)s/artifacts/public/%(artifact_name)s"

\* C8: the template a run resolves its URL with, in target and decoder mode:
\* the one --source names when it names a known scheme; otherwise the
\* environment variable's when it is set; otherwise the built-in deepspeech
\* template.
C8_SchemePrecedence ==
    (entry = "main" /\ tc_call.called) => tc_call.scheme = ExpectedScheme

Placeholder(k) == "%(" \o k \o ")s"
TheThree == {"arch_string", "artifact_name", "branch_name"}
\* the keys the template names: what stands between "%(" and the next ")"
KeysNamed(t) ==
    {SubSeq(t, i + 2, Min({j \in (i + 2)..Len(t) : SubSeq(t, j, j) = ")"}) - 1) :
        i \in {k \in 1..(Len(t) - 2) :
                 /\ SubSeq(t, k, k + 1) = "%("
                 /\ (k = 1 \/ SubSeq(t, k - 1, k - 1) # "%")
                 /\ \E j \in (k + 2)..Len(t) : SubSeq(t, j, j) = ")"}}
DirectCallOfThree ==
    /\ entry = "get_tc_url" /\ Exited
    /\ ~Blank(tc_call.arch_string) /\ ~Blank(tc_call.artifact_name)
    /\ ~Blank(tc_call.branch_name)

\* C9 as stated: with three non-empty values, get_tc_url fails whenever the
\* template in effect lacks one of the three placeholders.
C9_MissingPlaceholderFails ==
    (DirectCallOfThree /\ \E k \in TheThree : ~Contains(tc_call.scheme, Placeholder(k)))
    => tc_call.result.err # ""

ValueOf(k) ==
    CASE k = "arch_string" -> Val(tc_call.arch_string)
      [] k = "artifact_name" -> Val(tc_call.artifact_name)
      [] k = "branch_name" -> Val(tc_call.branch_name)

\* s with every occurrence of old, read from the left, replaced by new
RECURSIVE ReplaceAll(_, _, _)
ReplaceAll(s, old, new) ==
    LET at == {i \in 1..(Len(s) - Len(old) + 1) : SubSeq(s, i, i + Len(old) - 1) = old}
    IN  IF at = {} THEN s
        ELSE SubSeq(s, 1, Min(at) - 1) \o new
                 \o ReplaceAll(SubSeq(s, Min(at) + Len(old), Len(s)), old, new)

\* the template with the placeholders it contains replaced by the values
\* of the call, and "%%" by "%"
Substituted(t) ==
    ReplaceAll(
        ReplaceAll(
            ReplaceAll(
                ReplaceAll(t, Placeholder("arch_string"), ValueOf("arch_string")),
                Placeholder("artifact_name"), ValueOf("artifact_name")),
            Placeholder("branch_name"), ValueOf("branch_name")),
        "%%", "%")

\* C9 amended: with three non-empty values, get_tc_url fails with a template
\* error exactly when the template names a key other than the three; a
\* template that lacks some of the three gives the template with the
\* placeholders it does contain replaced by their values: no placeholder is
\* left, and nothing stands in for a missing one.
C9_OnlyUnknownKeyFails ==
    DirectCallOfThree =>
        IF KeysNamed(tc_call.scheme) \subseteq TheThree
        THEN /\ tc_call.result.err = "" /\ status = <<0>>
             /\ tc_call.result.s = Substituted(tc_call.scheme)
             /\ ~Contains(tc_call.result.s, "%(")
        ELSE tc_call.result.err = "KeyError" /\ status = <<1>>
C9_Witness ==
    /\ DirectCallOfThree
    /\ tc_call.scheme = "http://m/%(branch_name)s/%(artifact_name)s"
    /\ tc_call.result = Ok("http://m/master/native_client.tar.xz")

Before(i, ops) == \E j \in 1..(i - 1) : log[j].op \in ops /\ log[j].ok

\* C10: a target-mode run takes its steps in order and stops at the first that
\* fails: no directory is made and nothing is fetched or extracted when
\* --source is unknown or the URL cannot be resolved; the directory is made
\* (or found there) before the transfer or the look for the file; tar runs
\* only after a transfer that succeeded or a file that was found; a failed
\* step is the last one and the status is then 1; the status is 0 only when
\* every step succeeded.
C10_StepsInOrder ==
    TargetMode =>
        /\ UnknownSource => log = << >>
        /\ (tc_call.called /\ tc_call.result.err # "") =>
              (log = << >> /\ Exited /\ status = <<1>>)
        /\ log # << >> => (tc_call.called /\ tc_call.result.err = "")
        /\ \A i \in DOMAIN log :
              /\ log[i].op \in {"urlretrieve", "isfile"} => Before(i, {"makedirs"})
              /\ log[i].op = "tar" => Before(i, {"urlretrieve", "isfile"})
              /\ ~log[i].ok => (i = Len(log) /\ Exited /\ status = <<1>>)
        /\ status = <<0>> =>
              /\ \A i \in DOMAIN log : log[i].ok
              /\ \E i \in DOMAIN log : log[i].op \in {"urlretrieve", "isfile"}
C10_Witness ==
    /\ TargetMode /\ Exited /\ status = <<1>>
    /\ Len(log) = 2 /\ log[1].op = "makedirs" /\ log[1].ok
    /\ log[2].op = "urlretrieve" /\ ~log[2].ok
    /\ argv.artifact = "native_client.tar.xz"

====
